---- MODULE Spec2Model ----
(***************************************************************************)
(* Model of scripts/check-function-length.py: a script that walks src/,    *)
(* finds likely function declarations in every *.ts file with six regular  *)
(* expressions, measures each one by brace counting and exits with 1 when  *)
(* a function is longer than MAX_LINES.                                    *)
(*                                                                         *)
(* Text representation.  A file's text is a sequence of tokens; the token  *)
(* "\n" is the line break and the tokens of one line are separated by one  *)
(* blank.  The text <<"function","foo","(",")","{","\n","}">> stands for   *)
(* the Python string "function foo ( ) {\n}".  A token is either a word    *)
(* (matched by \w+) or a punctuation token.                                *)
(***************************************************************************)
EXTENDS Integers, Sequences, FiniteSets, TLC

MAX_LINES == 120

NL == "\n"

None == "None"

Keywords == {"export", "async", "function", "public", "private", "protected"}

\* "functions" is an identifier that begins with the letters of a keyword
Identifiers == {"foo", "bar", "functions"}

WordTokens == Keywords \cup Identifiers

(***************************************************************************)
(* content.split('\n'): the loop over the text is folded by halving the    *)
(* range, st.done being the lines already closed and st.cur the line under *)
(* construction.  A text without "\n" is one line; a trailing "\n" gives a *)
(* last, empty line.                                                       *)
(***************************************************************************)
RECURSIVE splitLoop(_, _, _, _)
splitLoop(content, lo, hi, st) ==
    IF lo > hi THEN st
    ELSE IF lo = hi THEN
        IF content[lo] = NL
        THEN [done |-> Append(st.done, st.cur), cur |-> <<>>]
        ELSE [done |-> st.done, cur |-> Append(st.cur, content[lo])]
    ELSE LET mid == (lo + hi) \div 2
             left == splitLoop(content, lo, mid, st)
         IN IF Len(left.done) >= 0
            THEN splitLoop(content, mid + 1, hi, left)
            ELSE left

split(content) ==
    LET st == splitLoop(content, 1, Len(content), [done |-> <<>>, cur |-> <<>>])
    IN Append(st.done, st.cur)

\* line.count(ch)
count(line, ch) == Cardinality({p \in 1..Len(line) : line[p] = ch})

\* ch in line
contains(line, ch) == \E p \in 1..Len(line) : line[p] = ch

(***************************************************************************)
(* count_function_lines.  The for loop over range(function_start,          *)
(* len(lines)) is folded over the 0-based indexes lo..hi; the loop state   *)
(* carries brace_count, in_function and ret, the value of the return       *)
(* statement once it has been executed (None before).                      *)
(***************************************************************************)
\* variant: the span ends as soon as the count is back to 0, closing brace
\* on the line or not
count_function_lines_body_any_line(lines, function_start, i, st) ==
    LET line == lines[i + 1]
        brace_count == st.brace_count + count(line, "{") - count(line, "}")
    IN IF brace_count <= 0
       THEN [brace_count |-> brace_count, in_function |-> TRUE,
             returned |-> TRUE, ret |-> i - function_start + 1]
       ELSE [brace_count |-> brace_count, in_function |-> TRUE,
             returned |-> FALSE, ret |-> 0]

\* variant: the closing line is not counted
count_function_lines_body_exclusive(lines, function_start, i, st) ==
    LET line == lines[i + 1]
        brace_count == st.brace_count + count(line, "{") - count(line, "}")
    IN IF brace_count <= 0 /\ contains(line, "}")
       THEN [brace_count |-> brace_count, in_function |-> TRUE,
             returned |-> TRUE, ret |-> i - function_start]
       ELSE [brace_count |-> brace_count, in_function |-> TRUE,
             returned |-> FALSE, ret |-> 0]

count_function_lines_body(lines, function_start, i, st) ==
    LET line == lines[i + 1]
        open_braces == count(line, "{")
        close_braces == count(line, "}")
        brace_count == st.brace_count + open_braces - close_braces
        in_function == TRUE
    IN IF in_function /\ brace_count <= 0 /\ contains(line, "}")
       THEN [brace_count |-> brace_count, in_function |-> in_function,
             returned |-> TRUE, ret |-> i - function_start + 1]
       ELSE [brace_count |-> brace_count, in_function |-> in_function,
             returned |-> FALSE, ret |-> 0]

RECURSIVE count_function_lines_loop(_, _, _, _, _)
count_function_lines_loop(lines, function_start, lo, hi, st) ==
    IF lo > hi \/ st.returned THEN st
    ELSE IF lo = hi THEN count_function_lines_body(lines, function_start, lo, st)
    ELSE LET mid == (lo + hi) \div 2
             left == count_function_lines_loop(lines, function_start, lo, mid, st)
         IN IF left.returned
            THEN left
            ELSE count_function_lines_loop(lines, function_start, mid + 1, hi, left)

count_function_lines(content, start_line) ==
    LET lines == split(content)
        function_start == start_line - 1
        st == count_function_lines_loop(lines, function_start,
                  function_start, Len(lines) - 1,
                  [brace_count |-> 0, in_function |-> FALSE,
                   returned |-> FALSE, ret |-> 0])
    IN IF st.returned THEN st.ret ELSE Len(lines) - function_start

(***************************************************************************)
(* The detection patterns, on tokens.  Every pattern is anchored at the    *)
(* start of the line and matches a prefix of it.  Elements:                *)
(*   Lit(S)     one token of S, outside any group                          *)
(*   Grp(g, S)  capture group g: one token of S                            *)
(*   Opt(g, S)  optional group g of the shape (tok\s+)?: a token of S and  *)
(*              the blank after it, so the token is not the last of the    *)
(*              line; the group's text is the token followed by " "        *)
(*   NotRParen  [^)]*: any run of tokens other than ")"                    *)
(*   Pre(w)     the letters of w at the end of a pattern, no word boundary *)
(*              after them: a token that begins with w, the match ending   *)
(*              inside it                                                  *)
(* \s+ and \s* between elements are met by the single blank between two    *)
(* tokens.                                                                 *)
(***************************************************************************)
Lit(S) == [t |-> "lit", g |-> 0, s |-> S]

Grp(g, S) == [t |-> "grp", g |-> g, s |-> S]

Opt(g, S) == [t |-> "opt", g |-> g, s |-> S]

NotRParen == [t |-> "star", g |-> 0, s |-> {}]

\* the word tokens that begin with the letters of w
StartsWith(w) ==
    IF w = "function" THEN {"function", "functions"} ELSE {w}

Pre(w) == [t |-> "lit", g |-> 0, s |-> StartsWith(w)]

patterns ==
    << << Opt(1, {"export"}), Opt(2, {"async"}), Lit({"function"}), Grp(3, WordTokens) >>,
       << Opt(1, {"export"}), Opt(2, {"async"}), Grp(3, WordTokens), Lit({":", "="}),
          Opt(4, {"async"}), Pre("function") >>,
       << Grp(1, {"public", "private", "protected"}), Opt(2, {"async"}),
          Grp(3, WordTokens), Lit({"("}) >>,
       << Opt(1, {"async"}), Grp(2, WordTokens), Lit({"("}), NotRParen, Lit({")"}),
          Lit({":", "="}), Lit({"{"}) >>,
       << Opt(1, {"async"}), Grp(2, WordTokens), Lit({"("}), NotRParen, Lit({")"}),
          Lit({"=>"}), Lit({"{"}) >>,
       << Grp(1, WordTokens), Lit({":"}), Opt(2, {"async"}), Pre("function") >> >>

\* number of capture groups of a pattern
ngroups(pattern) ==
    Cardinality({k \in 1..Len(pattern) : pattern[k].g # 0})

NoMatch == [ok |-> FALSE, groups |-> <<>>]

(***************************************************************************)
(* The backtracking matcher: an optional group and [^)]* are greedy, the   *)
(* alternative without them is tried when the rest of the pattern fails.   *)
(* groups[g] is None for a group that took no part in the match.           *)
(***************************************************************************)
RECURSIVE match_from(_, _, _, _, _)
match_from(pattern, k, line, p, groups) ==
    IF k > Len(pattern) THEN [ok |-> TRUE, groups |-> groups]
    ELSE
      LET e == pattern[k]
          here == p <= Len(line)
      IN CASE e.t = "lit" ->
                IF here /\ line[p] \in e.s
                THEN match_from(pattern, k + 1, line, p + 1, groups)
                ELSE NoMatch
           [] e.t = "grp" ->
                IF here /\ line[p] \in e.s
                THEN match_from(pattern, k + 1, line, p + 1,
                                [groups EXCEPT ![e.g] = line[p]])
                ELSE NoMatch
           [] e.t = "opt" ->
                LET taken == IF p < Len(line) /\ line[p] \in e.s
                             THEN match_from(pattern, k + 1, line, p + 1,
                                      [groups EXCEPT ![e.g] = line[p] \o " "])
                             ELSE NoMatch
                IN IF taken.ok THEN taken
                   ELSE match_from(pattern, k + 1, line, p, groups)
           [] e.t = "star" ->
                LET more == IF here /\ line[p] # ")"
                            THEN match_from(pattern, k, line, p + 1, groups)
                            ELSE NoMatch
                IN IF more.ok THEN more
                   ELSE match_from(pattern, k + 1, line, p, groups)

\* re.search(pattern, line)
re_search(pattern, line) ==
    match_from(pattern, 1, line, 1, [g \in 1..ngroups(pattern) |-> None])

\* match.lastindex: the last group that took part, 0 standing for Python's None
lastindex(match) ==
    LET part == {g \in DOMAIN match.groups : match.groups[g] # None}
    IN IF part = {} THEN 0 ELSE CHOOSE g \in part : \A h \in part : h <= g

\* match.group(match.lastindex) if match.lastindex else 'anonymous'
func_name_of(match) ==
    IF lastindex(match) # 0 THEN match.groups[lastindex(match)] ELSE "anonymous"

(***************************************************************************)
(* The inner loop "for pattern in patterns" on one line: the patterns are  *)
(* tried from k on, the first that matches decides the name and the break  *)
(* ends the loop.  pattern is 0 when no pattern matches.                   *)
(***************************************************************************)
RECURSIVE first_match(_, _)
first_match(line, k) ==
    IF k > Len(patterns) THEN [pattern |-> 0, func_name |-> None]
    ELSE LET match == re_search(patterns[k], line)
         IN IF match.ok
            THEN [pattern |-> k, func_name |-> func_name_of(match)]
            ELSE first_match(line, k + 1)

\* variant: a function of exactly MAX_LINES lines is reported too
find_functions_line_at_limit(content, i, line) ==
    LET hit == first_match(line, 1)
        func_lines == count_function_lines(content, i)
    IN IF hit.pattern # 0 /\ func_lines >= MAX_LINES
       THEN << <<i, hit.func_name, func_lines>> >>
       ELSE <<>>

\* variant: no break, every pattern that matches the line appends a record
RECURSIVE find_functions_line_all(_, _, _, _)
find_functions_line_all(content, i, line, k) ==
    IF k > Len(patterns) THEN <<>>
    ELSE LET match == re_search(patterns[k], line)
             func_lines == count_function_lines(content, i)
         IN (IF match.ok /\ func_lines > MAX_LINES
             THEN << <<i, func_name_of(match), func_lines>> >>
             ELSE <<>>) \o find_functions_line_all(content, i, line, k + 1)

find_functions_line_no_break(content, i, line) ==
    find_functions_line_all(content, i, line, 1)

\* One iteration of "for i, line in enumerate(lines, 1)": the records it
\* appends to functions.
find_functions_line(content, i, line) ==
    LET hit == first_match(line, 1)
        func_lines == count_function_lines(content, i)
    IN IF hit.pattern # 0 /\ func_lines > MAX_LINES
       THEN << <<i, hit.func_name, func_lines>> >>
       ELSE <<>>

RECURSIVE find_functions_loop(_, _, _, _, _)
find_functions_loop(content, lines, lo, hi, functions) ==
    IF lo > hi THEN functions
    ELSE IF lo = hi
         THEN functions \o find_functions_line(content, lo, lines[lo])
    ELSE LET mid == (lo + hi) \div 2
             left == find_functions_loop(content, lines, lo, mid, functions)
         IN IF Len(left) >= 0
            THEN find_functions_loop(content, lines, mid + 1, hi, left)
            ELSE left

\* find_functions, applied to the text read from the file
find_functions(content) ==
    LET lines == split(content)
    IN find_functions_loop(content, lines, 1, Len(lines), <<>>)

(***************************************************************************)
(* The state.  EXIT_CODE is the module-level flag; src_exists and tree are *)
(* the file system: whether src/ exists and, for every path of a *.ts file *)
(* under it, the name of the file of Files it holds (whether it can be     *)
(* read as UTF-8 text, and its text).  One                                 *)
(* interpreter is modelled: main can be called again after it has ended    *)
(* (its SystemExit, or the exception of a failed read or print, caught by  *)
(* the caller), and the tree can change between two calls.                 *)
(*   stdout_encodes  whether the encoding of sys.stdout has the characters *)
(*             U+274C and U+2705 of the lines printed at 85 and 89 (UTF-8  *)
(*             has them, ASCII and the legacy code pages do not); fixed    *)
(*             when the interpreter starts                                 *)
(*   stdout_escapes  whether the error handler of sys.stdout is            *)
(*             surrogateescape (the default under the C and POSIX locales, *)
(*             strict otherwise): the bytes of a file name that is not     *)
(*             UTF-8 are then written back as they are; fixed when the     *)
(*             interpreter starts                                          *)
(*   pc        "idle", "scan" (in the loop over rglob), "exited" (sys.exit *)
(*             was called) or "raised" (an exception left main)            *)
(*   order     the order in which rglob yields the paths; idx the next one *)
(*   stdout    the lines printed by the current call                       *)
(*   status    the exit status: the argument of sys.exit, or 1 for an      *)
(*             exception nobody catches; NoStatus while main runs          *)
(*   opened    the paths open() was called on in the current call          *)
(*   enumerated  whether rglob was called in the current call              *)
(*   found     whether find_functions has returned a violation in the      *)
(*             current call, printed or not                                *)
(*   prev      the order, output and end of the previous call, when the    *)
(*             tree was not modified since                                 *)
(*   arg, res  argument and result of a function applied on its own        *)
(***************************************************************************)
VARIABLES EXIT_CODE, stdout_encodes, stdout_escapes, src_exists, tree, pc, order,
          idx, stdout, status, opened, enumerated, found, prev, arg, res

vars == <<EXIT_CODE, stdout_encodes, stdout_escapes, src_exists, tree, pc, order,
          idx, stdout, status, opened, enumerated, found, prev, arg, res>>

machine == <<EXIT_CODE, stdout_encodes, stdout_escapes, src_exists, tree, pc,
             order, idx, stdout, status, opened, enumerated, found, prev>>

stdout_kind == <<stdout_encodes, stdout_escapes>>

MaxFiles == 2

\* the paths rglob can yield
Paths == 1..MaxFiles

\* the path of Paths whose file name is not valid UTF-8 (the bytes \xff.ts):
\* str(ts_file) holds a lone surrogate, U+DCFF; the names of the other paths
\* are ASCII
Surrogate == 1

NoStatus == -1

NoRun == [pc |-> "idle", order |-> <<>>, stdout |-> <<>>, status |-> NoStatus]

NoArg == [op |-> "none"]

(***************************************************************************)
(* The files of the model.  Body(head, n) is a declaration line, n empty   *)
(* lines and a closing brace: a function of n + 2 lines.                   *)
(***************************************************************************)
Blank(n) == [k \in 1..n |-> NL]

Body(head, n) == head \o Blank(n + 1) \o <<"}">>

FnHead == <<"function", "foo", "(", ")", "{">>

MethodHead == <<"public", "async", "bar", "(", ")", "{">>

Readable(content) == [readable |-> TRUE, content |-> content]

Unreadable == [readable |-> FALSE, content |-> <<>>]

\* The files a tree can hold, by name: a function of MAX_LINES lines, one of
\* MAX_LINES + 1 lines, two functions over the limit, a text without
\* declaration, and bytes that are not UTF-8 text.
Files ==
    [ limit  |-> Readable(Body(FnHead, MAX_LINES - 2)),
      long   |-> Readable(Body(FnHead, MAX_LINES - 1)),
      two    |-> Readable(Body(FnHead, MAX_LINES - 1) \o <<NL>>
                          \o Body(MethodHead, MAX_LINES)),
      plain  |-> Readable(<<"{", NL, "}", NL>>),
      binary |-> Unreadable ]

Catalogue == DOMAIN Files

\* find_functions on every readable file of the model, computed once
Scans ==
    [f \in Catalogue |->
        IF Files[f].readable THEN find_functions(Files[f].content) ELSE <<>>]

\* the trees under an existing src/
Trees == UNION {[S -> Catalogue] : S \in SUBSET Paths}

\* the orders in which rglob can yield the paths of a tree
Orders(t) ==
    {o \in [1..Cardinality(DOMAIN t) -> DOMAIN t] :
        \A a, b \in DOMAIN o : a # b => o[a] # o[b]}

\* the lines main prints
Printed(kind) ==
    [kind |-> kind, file |-> 0, line_num |-> 0, func_name |-> "", func_lines |-> 0]

ErrorLine(ts_file, f) ==
    [kind |-> "violation", file |-> ts_file, line_num |-> f[1],
     func_name |-> f[2], func_lines |-> f[3]]

Header == <<Printed("header"), Printed("blank")>>

\* print(line) returns.  The lines of 85 and 89 start with an emoji and
\* raise UnicodeEncodeError, nothing of the line written, on a stdout whose
\* encoding lacks it; the line of 85 carries str(ts_file) too and raises
\* for a lone surrogate unless the error handler is surrogateescape; the
\* other lines are ASCII.
CanPrint(line) ==
    CASE line.kind = "violation" ->
            stdout_encodes /\ (line.file = Surrogate => stdout_escapes)
      [] line.kind = "ok" -> stdout_encodes
      [] OTHER -> TRUE

Ended == pc \in {"exited", "raised"}

Callable == pc \in {"idle", "exited", "raised"}

\* what a new call of main remembers of the call before it
Remembered ==
    IF Ended
    THEN [pc |-> pc, order |-> order, stdout |-> stdout, status |-> status]
    ELSE NoRun

Init ==
    /\ EXIT_CODE = 0
    /\ stdout_encodes \in BOOLEAN
    /\ stdout_escapes \in BOOLEAN
    /\ src_exists \in BOOLEAN
    /\ tree \in Trees
    /\ (~src_exists => tree = <<>>)
    /\ pc = "idle"
    /\ order = <<>>
    /\ idx = 0
    /\ stdout = <<>>
    /\ status = NoStatus
    /\ opened = {}
    /\ enumerated = FALSE
    /\ found = FALSE
    /\ prev = NoRun
    /\ arg = NoArg
    /\ res = NoArg

\* variant: the error is printed but sys.exit(1) is forgotten
main_not_found_no_exit ==
    /\ Callable
    /\ ~src_exists
    /\ prev' = Remembered
    /\ stdout' = Header \o <<Printed("not_found")>>
    /\ status' = NoStatus
    /\ pc' = "scan"
    /\ order' = <<>>
    /\ idx' = 1
    /\ opened' = {}
    /\ enumerated' = TRUE
    /\ found' = FALSE
    /\ UNCHANGED <<EXIT_CODE, stdout_kind, src_exists, tree, arg, res>>

\* main, lines 74-80: src/ is missing
main_not_found ==
    /\ Callable
    /\ ~src_exists
    /\ prev' = Remembered
    /\ stdout' = Header \o <<Printed("not_found")>>
    /\ status' = 1
    /\ pc' = "exited"
    /\ order' = <<>>
    /\ idx' = 0
    /\ opened' = {}
    /\ enumerated' = FALSE
    /\ found' = FALSE
    /\ UNCHANGED <<EXIT_CODE, stdout_kind, src_exists, tree, arg, res>>

\* main, lines 74-82: src/ exists and rglob yields its files in the order o
main_rglob(o) ==
    /\ Callable
    /\ src_exists
    /\ prev' = Remembered
    /\ stdout' = Header
    /\ status' = NoStatus
    /\ pc' = "scan"
    /\ order' = o
    /\ idx' = 1
    /\ opened' = {}
    /\ enumerated' = TRUE
    /\ found' = FALSE
    /\ UNCHANGED <<EXIT_CODE, stdout_kind, src_exists, tree, arg, res>>

\* variant: EXIT_CODE counts the violations (an exit status is taken modulo 256)
main_scan_counting ==
    /\ pc = "scan"
    /\ idx <= Len(order)
    /\ LET ts_file == order[idx]
           file == Files[tree[ts_file]]
       IN /\ opened' = opened \cup {ts_file}
          /\ IF ~file.readable
             THEN /\ pc' = "raised"
                  /\ status' = 1
                  /\ UNCHANGED <<EXIT_CODE, idx, stdout, found>>
             ELSE LET functions == Scans[tree[ts_file]]
                  IN /\ found' = (found \/ functions # <<>>)
                     /\ IF functions # <<>>
                           /\ ~CanPrint(ErrorLine(ts_file, functions[1]))
                        THEN /\ pc' = "raised"
                             /\ status' = 1
                             /\ UNCHANGED <<EXIT_CODE, idx, stdout>>
                        ELSE /\ stdout' = stdout \o
                                  [k \in 1..Len(functions) |->
                                      ErrorLine(ts_file, functions[k])]
                             /\ EXIT_CODE' = (EXIT_CODE + Len(functions)) % 256
                             /\ idx' = idx + 1
                             /\ UNCHANGED <<pc, status>>
    /\ UNCHANGED <<stdout_kind, src_exists, tree, order, enumerated, prev, arg, res>>

\* main, lines 82-86: one iteration of the loop over the files.  The read of
\* find_functions (lines 39-40) raises for a file that is not UTF-8 text; the
\* print of line 85 raises at the first violation of the file, before
\* EXIT_CODE = 1, on a stdout that cannot encode the line (the emoji and the
\* path are the same in every line of a file: the first line decides).
main_scan ==
    /\ pc = "scan"
    /\ idx <= Len(order)
    /\ LET ts_file == order[idx]
           file == Files[tree[ts_file]]
       IN /\ opened' = opened \cup {ts_file}
          /\ IF ~file.readable
             THEN /\ pc' = "raised"
                  /\ status' = 1
                  /\ UNCHANGED <<EXIT_CODE, idx, stdout, found>>
             ELSE LET functions == Scans[tree[ts_file]]
                  IN /\ found' = (found \/ functions # <<>>)
                     /\ IF functions # <<>>
                           /\ ~CanPrint(ErrorLine(ts_file, functions[1]))
                        THEN /\ pc' = "raised"
                             /\ status' = 1
                             /\ UNCHANGED <<EXIT_CODE, idx, stdout>>
                        ELSE /\ stdout' = stdout \o
                                  [k \in 1..Len(functions) |->
                                      ErrorLine(ts_file, functions[k])]
                             /\ EXIT_CODE' = IF functions # <<>> THEN 1 ELSE EXIT_CODE
                             /\ idx' = idx + 1
                             /\ UNCHANGED <<pc, status>>
    /\ UNCHANGED <<stdout_kind, src_exists, tree, order, enumerated, prev, arg, res>>

\* main, lines 88-94: the summary and sys.exit(EXIT_CODE).  The print of line
\* 89 raises on a stdout that cannot encode it: no summary, no sys.exit.
main_report ==
    /\ pc = "scan"
    /\ idx > Len(order)
    /\ IF EXIT_CODE = 0 /\ ~CanPrint(Printed("ok"))
       THEN /\ pc' = "raised"
            /\ status' = 1
            /\ UNCHANGED stdout
       ELSE /\ stdout' = stdout \o
                  (IF EXIT_CODE = 0
                   THEN <<Printed("ok")>>
                   ELSE <<Printed("blank"), Printed("refactor")>>)
            /\ status' = EXIT_CODE
            /\ pc' = "exited"
    /\ UNCHANGED <<EXIT_CODE, stdout_kind, src_exists, tree, order, idx, opened,
                   enumerated, found, prev, arg, res>>

\* the trees one change away from t: a file written (created or replaced)
\* or a file deleted
Edits(t) ==
    {[q \in DOMAIN t \cup {p} |-> IF q = p THEN f ELSE t[q]] :
        p \in Paths, f \in Catalogue}
    \cup {[q \in DOMAIN t \ {p} |-> t[q]] : p \in DOMAIN t}

\* between two calls of main src/ is removed (e false) or created empty, or
\* one of its files is written or deleted (t); nothing of the calls before
\* is kept but the module's flag
Modify(e, t) ==
    /\ Callable
    /\ e # src_exists => t = <<>>
    /\ e = src_exists => (e /\ t \in Edits(tree))
    /\ <<e, t>> # <<src_exists, tree>>
    /\ src_exists' = e
    /\ tree' = t
    /\ pc' = "idle"
    /\ order' = <<>>
    /\ idx' = 0
    /\ stdout' = <<>>
    /\ status' = NoStatus
    /\ opened' = {}
    /\ enumerated' = FALSE
    /\ prev' = NoRun
    /\ found' = FALSE
    /\ UNCHANGED <<EXIT_CODE, stdout_kind, arg, res>>

Next ==
    \/ main_not_found
    \/ \E o \in Orders(tree) : main_rglob(o)
    \/ main_scan
    \/ main_report
    \/ \E e \in BOOLEAN, t \in Edits(tree) \cup {<<>>} : Modify(e, t)

Spec == Init /\ [][Next]_vars

(***************************************************************************)
(* The functions on their own: the argument is drawn from a bounded set,   *)
(* the machine above stays idle and one step applies the function.         *)
(***************************************************************************)
Idle ==
    /\ EXIT_CODE = 0
    /\ stdout_encodes = TRUE
    /\ stdout_escapes = FALSE
    /\ src_exists = FALSE
    /\ tree = <<>>
    /\ pc = "idle"
    /\ order = <<>>
    /\ idx = 0
    /\ stdout = <<>>
    /\ status = NoStatus
    /\ opened = {}
    /\ enumerated = FALSE
    /\ found = FALSE
    /\ prev = NoRun

Texts(tokens, n) == UNION {[1..m -> tokens] : m \in 0..n}

\* count_function_lines on every short text of braces and every line of it
MaxText == 6

SpanTokens == {"{", "}", "x", NL}

InitSpan ==
    /\ Idle
    /\ \E n \in 0..MaxText :
         \E content \in [1..n -> SpanTokens] :
            \E start_line \in 1..Len(split(content)) :
               arg = [op |-> "count_function_lines", content |-> content,
                      start_line |-> start_line]
    /\ res = NoArg

apply_count_function_lines ==
    /\ arg.op = "count_function_lines"
    /\ res = NoArg
    /\ res' = [op |-> arg.op,
               value |-> count_function_lines(arg.content, arg.start_line)]
    /\ UNCHANGED <<machine, arg>>

SpecSpan == InitSpan /\ [][apply_count_function_lines]_vars

\* the pattern loop on every short line
MaxToks == 5

MatchTokens ==
    {"export", "async", "function", "functions", "public", "foo", ":", "=", "(", ")",
     "=>", "{"}

InitMatch ==
    /\ Idle
    /\ \E n \in 0..MaxToks :
         \E line \in [1..n -> MatchTokens] :
            arg = [op |-> "first_match", line |-> line]
    /\ res = NoArg

apply_first_match ==
    /\ arg.op = "first_match"
    /\ res = NoArg
    /\ res' = [op |-> arg.op, value |-> first_match(arg.line, 1)]
    /\ UNCHANGED <<machine, arg>>

SpecMatch == InitMatch /\ [][apply_first_match]_vars

(***************************************************************************)
(* find_functions on files made of at most MaxSegs segments: a line that a *)
(* pattern matches, a brace alone on its line, or a run of empty lines     *)
(* that brings a function to MAX_LINES lines or one more.                  *)
(***************************************************************************)
MaxSegs == 4

PropertyHead == <<"foo", ":", "function", "(", ")", "{">>

DeclHead == <<"private", "bar", "(", ")">>

\* a call whose callee begins with the letters of function: pattern 2 matches
CallHead == <<"foo", "=", "functions", "(", ")">>

Segments ==
    { <<FnHead>>, <<PropertyHead>>, <<DeclHead>>, <<CallHead>>, <<<<"{">>>>, <<<<"}">>>>,
      [k \in 1..(MAX_LINES - 2) |-> <<>>],
      [k \in 1..(MAX_LINES - 1) |-> <<>>] }

RECURSIVE Flatten(_)
Flatten(ss) == IF ss = <<>> THEN <<>> ELSE Head(ss) \o Flatten(Tail(ss))

\* "\n".join(lines)
RECURSIVE JoinLoop(_, _, _, _)
JoinLoop(lines, lo, hi, acc) ==
    IF lo > hi THEN acc
    ELSE IF lo = hi
         THEN (IF lo = 1 THEN acc ELSE Append(acc, NL)) \o lines[lo]
    ELSE LET mid == (lo + hi) \div 2
             left == JoinLoop(lines, lo, mid, acc)
         IN IF Len(left) >= 0 THEN JoinLoop(lines, mid + 1, hi, left) ELSE left

Join(lines) == JoinLoop(lines, 1, Len(lines), <<>>)

FindInputs == {Join(Flatten(ss)) : ss \in Texts(Segments, MaxSegs)}

InitFind ==
    /\ Idle
    /\ \E content \in FindInputs :
         arg = [op |-> "find_functions", content |-> content]
    /\ res = NoArg

apply_find_functions ==
    /\ arg.op = "find_functions"
    /\ res = NoArg
    /\ res' = [op |-> arg.op, value |-> find_functions(arg.content)]
    /\ UNCHANGED <<machine, arg>>

SpecFind == InitFind /\ [][apply_find_functions]_vars

(***************************************************************************)
(* Properties of main (specification Spec).                                *)
(***************************************************************************)
ViolationLines(out) == {out[k] : k \in {j \in DOMAIN out : out[j].kind = "violation"}}

AllReadable == \A p \in DOMAIN tree : Files[tree[p]].readable

Summaries == {<<Printed("ok")>>, <<Printed("blank"), Printed("refactor")>>}

\* header, violation lines only, one of the two summaries
CleanReport(out) ==
    /\ Len(out) >= 3
    /\ SubSeq(out, 1, 2) = Header
    /\ \E n \in 2..Len(out) :
          /\ \A k \in 3..n : out[k].kind = "violation"
          /\ SubSeq(out, n + 1, Len(out)) \in Summaries

\* C1, for a src/ that is missing or whose files can all be read (section 7
\* of the specification lets the failure of a read end the run): main ends
\* with status 0 exactly when src/ exists and find_functions returned no
\* violation in the call, and with status 1 otherwise.
C1_exit_status ==
    (Ended /\ AllReadable) =>
       /\ status \in {0, 1}
       /\ (status = 0 <=> (src_exists /\ ~found))

\* C3: when src/ does not exist main ends by sys.exit(1) without calling
\* rglob, without opening a file and without printing a violation.
C3_missing_dir ==
    (Ended /\ ~src_exists) =>
       /\ pc = "exited"
       /\ status = 1
       /\ ~enumerated
       /\ opened = {}
       /\ ~found
       /\ ViolationLines(stdout) = {}
       /\ stdout = Header \o <<Printed("not_found")>>

C3_witness ==
    /\ pc = "exited"
    /\ ~src_exists
    /\ stdout[3].kind = "not_found"
    /\ EXIT_CODE = 1

\* C4, for an existing src/ whose files can all be read: main ends by
\* sys.exit after a clean report (header, violation lines, summary), no
\* exception leaves it before the summary.
C4_clean_report ==
    (Ended /\ src_exists /\ AllReadable) => (pc = "exited" /\ CleanReport(stdout))

\* C6, for a src/ whose files can all be read: two calls of main on the same
\* tree, whatever the orders in which rglob yields the files, print the same
\* set of violations and end with the same status.
C6_any_order ==
    (Ended /\ prev.pc # "idle" /\ AllReadable) =>
       /\ ViolationLines(stdout) = ViolationLines(prev.stdout)
       /\ status = prev.status

\* C7: a second call of main on the unmodified tree, rglob yielding the
\* files in the same order, prints the same lines and ends the same way with
\* the same status as the first, whatever EXIT_CODE the first call left.
C7_idempotent ==
    (Ended /\ prev.pc # "idle" /\ order = prev.order) =>
       /\ stdout = prev.stdout
       /\ status = prev.status
       /\ pc = prev.pc

C7_witness ==
    /\ pc = "exited"
    /\ prev.pc = "exited"
    /\ order = prev.order
    /\ ViolationLines(stdout) # {}
    /\ ViolationLines(prev.stdout) # {}

(***************************************************************************)
(* Properties of find_functions (specification SpecFind).                  *)
(***************************************************************************)
Scanned == res # NoArg /\ res.op = "find_functions"

\* the patterns that match a line
Matching(line) == {k \in 1..Len(patterns) : re_search(patterns[k], line).ok}

\* the candidate lines among lines
CandidatesOf(lines) == {i \in 1..Len(lines) : Matching(lines[i]) # {}}

Measured(i) == count_function_lines(arg.content, i)

RecordsAt(i) == {k \in DOMAIN res.value : res.value[k][1] = i}

\* C2: a candidate that measures exactly MAX_LINES lines gives no record, a
\* candidate that measures MAX_LINES + 1 lines gives exactly one.
C2_boundary ==
    Scanned =>
       \A i \in CandidatesOf(split(arg.content)) :
          LET n == Measured(i)
          IN /\ n = MAX_LINES => RecordsAt(i) = {}
             /\ n = MAX_LINES + 1 => Cardinality(RecordsAt(i)) = 1

C2_witness ==
    /\ Scanned
    /\ \E i, j \in CandidatesOf(split(arg.content)) :
          /\ Measured(i) = MAX_LINES
          /\ RecordsAt(i) = {}
          /\ Measured(j) = MAX_LINES + 1
          /\ RecordsAt(j) # {}

\* the record of the candidate line i: its number, the name the first
\* matching pattern gives, its measure
RecordOf(i, line) ==
    LET first == CHOOSE k \in Matching(line) : \A h \in Matching(line) : k <= h
    IN <<i, func_name_of(re_search(patterns[first], line)), Measured(i)>>

\* C5: the records of a file are exactly those of the candidate lines that
\* measure more than MAX_LINES, one per line (that of the first matching
\* pattern), by strictly ascending line number; a file without candidate
\* gives none.
C5_scan_file ==
    Scanned =>
       LET lines == split(arg.content)
           candidates == CandidatesOf(lines)
       IN /\ \A k \in 1..(Len(res.value) - 1) : res.value[k][1] < res.value[k + 1][1]
          /\ {res.value[k] : k \in DOMAIN res.value}
                = {RecordOf(i, lines[i]) : i \in {j \in candidates : Measured(j) > MAX_LINES}}
          /\ candidates = {} => res.value = <<>>

C5_witness ==
    /\ Scanned
    /\ Len(res.value) >= 2
    /\ LET lines == split(arg.content)
       IN /\ \E i \in CandidatesOf(lines) : Measured(i) <= MAX_LINES
          /\ \E k \in DOMAIN res.value : Cardinality(Matching(lines[res.value[k][1]])) >= 2

(***************************************************************************)
(* Properties of count_function_lines (specification SpecSpan).            *)
(***************************************************************************)
Counted == res # NoArg /\ res.op = "count_function_lines"

\* occurrences of the token ch on the lines from..to
Occurrences(lines, from, to, ch) ==
    Cardinality({jp \in (from..to) \X (1..MaxText) :
                    jp[2] <= Len(lines[jp[1]]) /\ lines[jp[1]][jp[2]] = ch})

\* the lines at or after start_line where the span can end: the braces
\* opened minus the braces closed since start_line is at most 0 and the
\* line has a closing brace
Stops ==
    LET lines == split(arg.content)
    IN {k \in arg.start_line..Len(lines) :
          /\ Occurrences(lines, arg.start_line, k, "{")
                - Occurrences(lines, arg.start_line, k, "}") <= 0
          /\ contains(lines[k], "}")}

\* C8: the span is k - start_line + 1 for the first line k where the span
\* can end, and the number of lines from start_line to the last line when
\* there is none.
C8_measure_span ==
    Counted =>
       res.value =
          IF Stops # {}
          THEN (CHOOSE k \in Stops : \A h \in Stops : k <= h) - arg.start_line + 1
          ELSE Len(split(arg.content)) - arg.start_line + 1

C8_witness ==
    /\ Counted
    /\ Stops # {}
    /\ res.value >= 3
    /\ ~contains(split(arg.content)[arg.start_line], "{")
    /\ ~contains(split(arg.content)[arg.start_line], "}")

\* C9: the span has at least one line and does not pass the last line.
C9_span_bounds ==
    Counted =>
       /\ 1 <= res.value
       /\ res.value <= Len(split(arg.content)) - arg.start_line + 1

C9_witness ==
    /\ Counted
    /\ res.value = 1
    /\ arg.start_line < Len(split(arg.content))
    /\ count(split(arg.content)[arg.start_line], "}") >= 2
    /\ ~contains(split(arg.content)[arg.start_line], "{")

(***************************************************************************)
(* Properties of the pattern loop (specification SpecMatch).               *)
(***************************************************************************)
Matched == res # NoArg /\ res.op = "first_match" /\ res.value.pattern # 0

\* the group of a pattern that captures the identifier, (\w+)
NameGroup(pattern) ==
    CHOOSE g \in 1..ngroups(pattern) :
        \E k \in 1..Len(pattern) :
            pattern[k].g = g /\ pattern[k].t = "grp" /\ pattern[k].s = WordTokens

\* C10: the name reported for a matched line is the text of the (\w+) group
\* of the pattern that matched, and "anonymous" only when no group took part
\* in the match.
C10_name_group ==
    Matched =>
       LET pattern == patterns[res.value.pattern]
           match == re_search(pattern, arg.line)
       IN /\ res.value.func_name = match.groups[NameGroup(pattern)]
          /\ res.value.func_name = "anonymous" =>
                \A g \in DOMAIN match.groups : match.groups[g] = None

====
